---- MODULE Spec2Model ----
(***************************************************************************)
(* The Telegram webhook of archdev-ini/aether                              *)
(* (src/src/app/api/telegram-bot/route.ts): the POST handler, its command  *)
(* router, the privilege check, the moderation, event and submission       *)
(* handlers, and the two argument parsers.  Spec is the handler;           *)
(* SpecDuration and SpecArgs run parseMuteDuration and parseCommandArgs    *)
(* on their own, over every input of a bounded set.                        *)
(*                                                                         *)
(* Text is kept as TLA+ strings and taken apart character by character     *)
(* (SubSeq), so that split, startsWith, the regular expressions and        *)
(* toUpperCase are computed the way the code computes them.                *)
(***************************************************************************)
EXTENDS Integers, Sequences, FiniteSets, TLC

VARIABLES
    cfg,        \* process.env as read when the module loads
    pc,         \* where the POST handler stands
    msg,        \* the request body of the delivery being handled
    log,        \* the collaborator calls of this delivery, in order
    response,   \* the HTTP status answered (0: none yet)
    everAdmin,  \* history: senders some delivery resolved as chat admin
    input,      \* the argument of a parser run on its own
    output      \* what the parser returned for it

vars == <<cfg, pc, msg, log, response, everAdmin, input, output>>

-----------------------------------------------------------------------------
(* Characters and strings *)

LowerStr == "abcdefghijklmnopqrstuvwxyz"
UpperStr == "ABCDEFGHIJKLMNOPQRSTUVWXYZ"
DigitStr == "0123456789"

CharAt(s, i) == SubSeq(s, i, i)

Lower == {CharAt(LowerStr, i) : i \in 1..Len(LowerStr)}
Upper == {CharAt(UpperStr, i) : i \in 1..Len(UpperStr)}
Digit == {CharAt(DigitStr, i) : i \in 1..Len(DigitStr)}

\* \d of a JavaScript regular expression
IsDigit(c) == c \in Digit

\* \w of a JavaScript regular expression
IsWordChar(c) == c \in Lower \cup Upper \cup Digit \cup {"_"}

\* [A-Z0-9] under the i flag
IsAlnum(c) == c \in Lower \cup Upper \cup Digit

DigitVal(c) == CHOOSE i \in 0..9 : CharAt(DigitStr, i + 1) = c

toUpperCaseChar(c) ==
    IF c \in Lower
    THEN CharAt(UpperStr, CHOOSE i \in 1..Len(LowerStr) : CharAt(LowerStr, i) = c)
    ELSE c

RECURSIVE toUpperCase(_)
toUpperCase(s) ==
    IF s = "" THEN ""
    ELSE toUpperCaseChar(Head(s)) \o toUpperCase(Tail(s))

toLowerCaseChar(c) ==
    IF c \in Upper
    THEN CharAt(LowerStr, CHOOSE i \in 1..Len(UpperStr) : CharAt(UpperStr, i) = c)
    ELSE c

RECURSIVE toLowerCase(_)
toLowerCase(s) ==
    IF s = "" THEN ""
    ELSE toLowerCaseChar(Head(s)) \o toLowerCase(Tail(s))

\* String.prototype.startsWith
startsWith(s, p) == Len(s) >= Len(p) /\ SubSeq(s, 1, Len(p)) = p

\* The positions of s that hold character c
Positions(s, c) == {i \in 1..Len(s) : CharAt(s, i) = c}

Min(S) == CHOOSE x \in S : \A y \in S : x <= y

\* text.split(' '): the pieces between single spaces, empty pieces kept
RECURSIVE split(_)
split(s) ==
    IF Positions(s, " ") = {} THEN <<s>>
    ELSE LET i == Min(Positions(s, " "))
         IN  <<SubSeq(s, 1, i - 1)>> \o split(SubSeq(s, i + 1, Len(s)))

\* Array.prototype.join(' ')
RECURSIVE join(_)
join(a) ==
    IF Len(a) = 0 THEN ""
    ELSE IF Len(a) = 1 THEN a[1]
    ELSE a[1] \o " " \o join(Tail(a))

\* args[i] of a JavaScript array: undefined past the end
Undefined == "<undefined>"
At(a, i) == IF i <= Len(a) THEN a[i] ELSE Undefined

\* !x for a string or undefined
Falsy(x) == x = Undefined \/ x = ""

\* parseInt of a run of decimal digits
RECURSIVE parseInt(_)
parseInt(s) ==
    IF s = "" THEN 0
    ELSE 10 * parseInt(SubSeq(s, 1, Len(s) - 1)) + DigitVal(CharAt(s, Len(s)))

-----------------------------------------------------------------------------
(* parseMuteDuration, route.ts 184-197 *)

SecondsPerHour == 3600
SecondsPerDay == 86400
SecondsPerMinute == 60

\* The outcome of durationStr.match(/^(\d+)([hdm])$/)
MuteMatch(durationStr) ==
    /\ Len(durationStr) >= 2
    /\ \A i \in 1..(Len(durationStr) - 1) : IsDigit(CharAt(durationStr, i))
    /\ CharAt(durationStr, Len(durationStr)) \in {"h", "d", "m"}

\* The exception that undefined.match(...) throws, as a value no duration takes
TypeError == 0 - 1

\* A parseMuteDuration whose pattern is not anchored at the start
parseMuteDurationUnanchored(durationStr) ==
    IF durationStr = Undefined THEN TypeError
    ELSE LET starts == {i \in 1..Len(durationStr) :
                           MuteMatch(SubSeq(durationStr, i, Len(durationStr)))}
         IN  IF starts = {} THEN 0
             ELSE LET value == parseInt(SubSeq(durationStr, Min(starts),
                                               Len(durationStr) - 1))
                      unit == CharAt(durationStr, Len(durationStr))
                  IN  CASE unit = "h" -> value * SecondsPerHour
                        [] unit = "d" -> value * SecondsPerDay
                        [] OTHER -> value * SecondsPerMinute

parseMuteDuration(durationStr) ==
    IF durationStr = Undefined THEN TypeError
    ELSE IF ~MuteMatch(durationStr) THEN 0
    ELSE LET value == parseInt(SubSeq(durationStr, 1, Len(durationStr) - 1))
             unit == CharAt(durationStr, Len(durationStr))
         IN  CASE unit = "h" -> value * SecondsPerHour
               [] unit = "d" -> value * SecondsPerDay
               [] unit = "m" -> value * SecondsPerMinute
               [] OTHER -> 0

-----------------------------------------------------------------------------
(* parseCommandArgs, route.ts 321-329 *)

Quote == "\""

\* The end of the run of characters satisfying IsWordChar that starts at i
RECURSIVE WordEnd(_, _)
WordEnd(s, i) ==
    IF i + 1 <= Len(s) /\ IsWordChar(CharAt(s, i + 1)) THEN WordEnd(s, i + 1) ELSE i

\* One attempt of /(\w+)="([^"]+)"/ anchored at position i
MatchAt(s, i) ==
    IF ~(i <= Len(s) /\ IsWordChar(CharAt(s, i))) THEN [ok |-> FALSE]
    ELSE LET k == WordEnd(s, i)
             closing == {q \in (k + 3)..Len(s) : CharAt(s, q) = Quote}
         IN  IF /\ k + 2 <= Len(s)
                /\ CharAt(s, k + 1) = "="
                /\ CharAt(s, k + 2) = Quote
                /\ closing # {}
                /\ Min(closing) > k + 3
             THEN [ok |-> TRUE, key |-> SubSeq(s, i, k),
                   val |-> SubSeq(s, k + 3, Min(closing) - 1), end |-> Min(closing)]
             ELSE [ok |-> FALSE]

\* while ((match = regex.exec(text)) !== null) args[match[1]] = match[2]
RECURSIVE ScanArgs(_, _, _)
ScanArgs(s, from, args) ==
    LET starts == {i \in from..Len(s) : MatchAt(s, i).ok}
    IN  IF starts = {} THEN args
        ELSE LET m == MatchAt(s, Min(starts))
             IN  ScanArgs(s, m.end + 1,
                          [k \in DOMAIN args \cup {m.key} |->
                              IF k = m.key THEN m.val ELSE args[k]])

NoArgs == [k \in {} |-> ""]

\* A scan that keeps the first value of a key
RECURSIVE ScanArgsFirstWins(_, _, _)
ScanArgsFirstWins(s, from, args) ==
    LET starts == {i \in from..Len(s) : MatchAt(s, i).ok}
    IN  IF starts = {} THEN args
        ELSE LET m == MatchAt(s, Min(starts))
             IN  ScanArgsFirstWins(s, m.end + 1,
                                   [k \in DOMAIN args \cup {m.key} |->
                                       IF k \in DOMAIN args THEN args[k] ELSE m.val])

parseCommandArgsFirstWins(text) == ScanArgsFirstWins(text, 1, NoArgs)

parseCommandArgs(text) == ScanArgs(text, 1, NoArgs)

\* args.title and the like: undefined when the key is absent
Field(args, k) == IF k \in DOMAIN args THEN args[k] ELSE Undefined

-----------------------------------------------------------------------------
(* Configuration, route.ts 6-16.  An unset variable is the empty string:   *)
(* both are falsy wherever the code tests them.                            *)

FullConfig ==
    [TELEGRAM_BOT_TOKEN |-> "tok", AIRTABLE_API_KEY |-> "key",
     AIRTABLE_BASE_ID |-> "appB", TELEGRAM_ADMIN_ID |-> "7",
     AIRTABLE_MEMBERS_TABLE_ID |-> "tblM", AIRTABLE_EVENTS_TABLE_ID |-> "tblE",
     AIRTABLE_QUESTIONS_TABLE_ID |-> "tblQ", TELEGRAM_GROUP_CHAT_ID |-> "-100"]

\* The full configuration, and each one that differs from it in one variable
Configs ==
    {FullConfig}
    \cup {[FullConfig EXCEPT ![k] = ""] :
            k \in {"TELEGRAM_BOT_TOKEN", "AIRTABLE_API_KEY", "AIRTABLE_EVENTS_TABLE_ID",
                   "TELEGRAM_ADMIN_ID", "TELEGRAM_GROUP_CHAT_ID"}}

\* getAirtableBase() !== null, route.ts 201-207
getAirtableBase == cfg.AIRTABLE_API_KEY # "" /\ cfg.AIRTABLE_BASE_ID # ""

\* from.id === Number(TELEGRAM_ADMIN_ID): Number of a string of decimal
\* digits is its value, Number("") is 0, and of any other string here NaN
IdIsNumber(id, s) ==
    IF s = "" THEN id = 0
    ELSE (\A i \in 1..Len(s) : IsDigit(CharAt(s, i))) /\ id = parseInt(s)

-----------------------------------------------------------------------------
(* Deliveries: the bodies Telegram posts.  A private chat's id is the      *)
(* user's id (positive); a group's id is negative.                         *)

GroupChatId == 0 - 100
SuperUser == 7
OtherUser == 8
RepliedUser == 9
CommandMessageId == 2
RepliedMessageId == 1

Senders == {SuperUser, OtherUser}

Texts ==
    {"/ban", "/ban spam", "/mute", "/mute 1h", "/mute 2d rude", "/mute 0h",
     "/mute 5x", "/mute ", "/unmute", "/del",
     "/events", "/ask", "/ask hi", "/asklive", "/asklive wad25 hi", "/suggest",
     "/suggest x",
     "/createevent", "/createevent title=\"A\" date=\"D\" code=\"c1\"",
     "/createevent title=\"A\" date=\"D\"", "/createevent title=A date=\"D\" code=\"c1\"",
     "/createevent date=\"D\" code=\"c1\" link=\"L\"",
     "/updateevent", "/updateevent c1", "/updateevent c1 title=\"B\"",
     "/updateevent c1 status=\"closed\"", "/updateevent c1 foo=\"x\"",
     "/updateevent c1 status=\"open\"", "/closeevent", "/closeevent c1",
     "/listevents", "/registrations", "/registrations c1",
     "/start", "/verify", "/verify AETH-1234", "/verify nope", "/foo",
     "", "hello", "7", "aeth-12ab", "AETH-1234"}

NoReply == [present |-> FALSE, from |-> 0, message_id |-> 0]
Reply == [present |-> TRUE, from |-> RepliedUser, message_id |-> RepliedMessageId]

NoMessage ==
    [present |-> FALSE, message_id |-> 0, from |-> 0,
     chat |-> [id |-> 0, type |-> "none"], text |-> "", reply_to_message |-> NoReply]

Messages ==
    {[present |-> TRUE, message_id |-> CommandMessageId, from |-> u,
      chat |-> c, text |-> t, reply_to_message |-> r] :
        u \in Senders, t \in Texts, r \in {NoReply, Reply},
        c \in {[id |-> SuperUser, type |-> "private"],
               [id |-> OtherUser, type |-> "private"],
               [id |-> GroupChatId, type |-> "group"]}}

\* A private chat is the chat with the sender
Deliveries ==
    {NoMessage} \cup {m \in Messages : m.chat.type = "private" => m.chat.id = m.from}

\* text.split(' ') of each text a delivery can hold, computed once
SplitText == [t \in Texts |-> split(t)]

\* const [command, ...args] = text.split(' ')
command == SplitText[msg.text][1]
args == Tail(SplitText[msg.text])

ModerationCommands == {"/ban", "/mute", "/unmute", "/del"}
PrivateOnlyCommands == {"/events", "/ask", "/asklive", "/suggest"}
adminEventCommands ==
    {"/createevent", "/updateevent", "/closeevent", "/listevents", "/registrations"}

-----------------------------------------------------------------------------
(* Collaborator calls.  A call is logged when it is issued, with the       *)
(* answer the collaborator gave.                                           *)

Call(op, target, text, res, data) ==
    [op |-> op, chat |-> msg.chat.id, target |-> target, text |-> text,
     res |-> res, data |-> data]

NoMarkup == ""

\* sendMessage, route.ts 46-75: its own failures are caught and logged
sendMessage(text, replyToMessageId, replyMarkup) ==
    IF cfg.TELEGRAM_BOT_TOKEN = "" THEN <<>>
    ELSE <<Call("sendMessage", replyToMessageId, text, "sent", replyMarkup)>>

\* What a getChatMember request can come to
MemberOutcomes ==
    {"creator", "administrator", "member", "not_ok", "bad_shape", "network_error"}

\* What a fetch whose answer is not read can come to: it rejects only on a
\* network error
FetchOutcomes == {"ok", "not_ok", "network_error"}

\* What the getMe request can come to
GetMeOutcomes == {"ok", "bad_shape", "network_error"}

\* The value of data.ok && ['creator', 'administrator'].includes(...), with
\* the catch: a rejected fetch and an answer without a result give false
isUserAdminFailOpen(chatId, userId, o) ==
    IF chatId > 0 THEN FALSE
    ELSE o \in {"creator", "administrator", "network_error", "bad_shape"}

\* A resolution that remembers earlier deliveries
isUserAdminCached(chatId, userId, o) ==
    IF chatId > 0 THEN FALSE
    ELSE o \in {"creator", "administrator"} \/ userId \in everAdmin

\* Any member of the chat passes
isUserAdminAnyMember(chatId, userId, o) ==
    IF chatId > 0 THEN FALSE
    ELSE o \in {"creator", "administrator", "member"}

\* isUserAdmin, route.ts 78-92
isUserAdmin(chatId, userId, o) ==
    IF chatId > 0 THEN FALSE
    ELSE CASE o = "network_error" -> FALSE
           [] o = "not_ok" -> FALSE
           [] o = "bad_shape" -> FALSE
           [] OTHER -> o \in {"creator", "administrator"}

\* The request isUserAdmin makes
isUserAdminCalls(chatId, userId, o) ==
    IF chatId > 0 THEN <<>>
    ELSE <<Call("getChatMember", userId, "", o, "")>>

-----------------------------------------------------------------------------
(* What a piece of the handler comes to: the calls it issued, and whether  *)
(* control goes on ("next"), the handler returned its 200 ("return") or an *)
(* exception left for the catch of POST ("throw").                         *)

R(calls, exit) == [calls |-> calls, exit |-> exit]

\* r, then s unless r returned or threw
Then(r, s) ==
    IF r.exit # "next" THEN r ELSE R(r.calls \o s.calls, s.exit)

\* await fetch(...) with the answer not read: rejects on a network error
Fetch(op, target, f, data) ==
    R(<<Call(op, target, "", f, data)>>, IF f = "network_error" THEN "throw" ELSE "next")

Send(text, replyToMessageId, replyMarkup) ==
    R(sendMessage(text, replyToMessageId, replyMarkup), "next")

\* String(n) for n >= 0
RECURSIVE IntToStr(_)
IntToStr(n) ==
    IF n < 10 THEN CharAt(DigitStr, n + 1)
    ELSE IntToStr(n \div 10) \o CharAt(DigitStr, (n % 10) + 1)

-----------------------------------------------------------------------------
(* Moderation actions, route.ts 120-182 *)

ReasonText(reason) == IF reason # "" THEN "Reason: " \o reason ELSE ""

banUser(userId, reason, f) ==
    Then(Fetch("banChatMember", userId, f, ""),
         Send("User has been banned. " \o ReasonText(reason), 0, NoMarkup))

unbanUser(userId, f) ==
    Then(Fetch("unbanChatMember", userId, f, ""),
         Send("User has been unbanned.", 0, NoMarkup))

muteUser(userId, durationSeconds, reason, f) ==
    LET durationText ==
            IF durationSeconds >= SecondsPerDay
            THEN IntToStr(durationSeconds \div SecondsPerDay) \o " days"
            ELSE IntToStr(durationSeconds \div SecondsPerHour) \o " hours"
    IN  Then(Fetch("restrictChatMember", userId, f,
                   [can_send_messages |-> FALSE, duration |-> durationSeconds]),
             Send("User has been muted for " \o durationText \o ". " \o ReasonText(reason),
                  0, NoMarkup))

unmuteUser(userId, f) ==
    Then(Fetch("restrictChatMember", userId, f,
               [can_send_messages |-> TRUE, duration |-> 0]),
         Send("User has been unmuted.", 0, NoMarkup))

deleteMessage(messageId, f) == Fetch("deleteMessage", messageId, f, "")

-----------------------------------------------------------------------------
(* POST, route.ts 449-493: moderation commands in a group *)

MustReplyText == "This command must be used as a reply to a user's message."
OnAdministratorText == "This command cannot be used on an administrator."
\* The code's text has backquotes around 1h and 2d; a TLA+ string cannot hold one
InvalidDurationText == "Invalid duration. Use format like '1h', '2d'."

\* A mute that skips the duration check
MuteBranchUnchecked(f) ==
    LET duration == parseMuteDuration(At(args, 1))
    IN  IF duration = TypeError THEN R(<<>>, "throw")
        ELSE muteUser(msg.reply_to_message.from, duration, join(Tail(args)), f)

\* route.ts 473-480
MuteBranch(f) ==
    LET duration == parseMuteDuration(At(args, 1))
    IN  IF duration = TypeError THEN R(<<>>, "throw")
        ELSE IF duration > 0
        THEN muteUser(msg.reply_to_message.from, duration, join(Tail(args)), f)
        ELSE Send(InvalidDurationText, msg.message_id, NoMarkup)

\* A ban or mute that asks for the target's role and does not heed it
BanOrMuteTargetUnheeded(o2, f) ==
    IF msg.reply_to_message.present
    THEN Then(R(isUserAdminCalls(msg.chat.id, msg.reply_to_message.from, o2), "next"),
              IF command = "/ban"
              THEN banUser(msg.reply_to_message.from, join(args), f)
              ELSE MuteBranch(f))
    ELSE R(<<>>, "next")

\* route.ts 463-482
BanOrMute(o2, f) ==
    IF msg.reply_to_message.present
    THEN LET isTargetAdmin == isUserAdmin(msg.chat.id, msg.reply_to_message.from, o2)
         IN  Then(R(isUserAdminCalls(msg.chat.id, msg.reply_to_message.from, o2), "next"),
                  IF isTargetAdmin
                  THEN Send(OnAdministratorText, msg.message_id, NoMarkup)
                  ELSE IF command = "/ban"
                       THEN banUser(msg.reply_to_message.from, join(args), f)
                       ELSE MuteBranch(f))
    ELSE R(<<>>, "next")

\* route.ts 462-491
ModerationSwitch(o2, f1, f2) ==
    CASE command \in {"/ban", "/mute"} -> BanOrMute(o2, f1)
      [] command = "/unmute" ->
            IF msg.reply_to_message.present
            THEN unmuteUser(msg.reply_to_message.from, f1)
            ELSE R(<<>>, "next")
      [] command = "/del" ->
            Then(IF msg.reply_to_message.message_id # 0
                 THEN deleteMessage(msg.reply_to_message.message_id, f1)
                 ELSE R(<<>>, "next"),
                 deleteMessage(msg.message_id, f2))
      [] OTHER -> R(<<>>, "next")

\* A moderation block that sends the usage reply and goes on
ModerationBlockNoStop(o1, o2, f1, f2) ==
    IF msg.chat.type # "private" /\ startsWith(msg.text, "/")
    THEN LET isAdmin == isUserAdmin(msg.chat.id, msg.from, o1)
         IN  Then(R(isUserAdminCalls(msg.chat.id, msg.from, o1), "next"),
                  IF isAdmin
                  THEN IF ~msg.reply_to_message.present /\ command \in ModerationCommands
                       THEN Send(MustReplyText, msg.message_id, NoMarkup)
                       ELSE ModerationSwitch(o2, f1, f2)
                  ELSE R(<<>>, "next"))
    ELSE R(<<>>, "next")

\* A moderation block that queries the sender's role and does not heed it
ModerationBlockUngated(o1, o2, f1, f2) ==
    IF msg.chat.type # "private" /\ startsWith(msg.text, "/")
    THEN Then(R(isUserAdminCalls(msg.chat.id, msg.from, o1), "next"),
              IF ~msg.reply_to_message.present /\ command \in ModerationCommands
              THEN Then(Send(MustReplyText, msg.message_id, NoMarkup),
                        R(<<>>, "return"))
              ELSE ModerationSwitch(o2, f1, f2))
    ELSE R(<<>>, "next")

\* route.ts 450-493
ModerationBlock(o1, o2, f1, f2) ==
    IF msg.chat.type # "private" /\ startsWith(msg.text, "/")
    THEN LET isAdmin == isUserAdmin(msg.chat.id, msg.from, o1)
         IN  Then(R(isUserAdminCalls(msg.chat.id, msg.from, o1), "next"),
                  IF isAdmin
                  THEN IF ~msg.reply_to_message.present /\ command \in ModerationCommands
                       THEN Then(Send(MustReplyText, msg.message_id, NoMarkup),
                                 R(<<>>, "return"))
                       ELSE ModerationSwitch(o2, f1, f2)
                  ELSE R(<<>>, "next"))
    ELSE R(<<>>, "next")

-----------------------------------------------------------------------------
(* Airtable helpers and event management, route.ts 232-394 *)

MaxRecords == 2

\* What a query or a write of the datastore can come to
WriteOutcomes == {"ok", "error"}
FindOutcomes == {"found", "none", "error"}
ListOutcomes ==
    {[ok |-> FALSE, n |-> 0]} \cup {[ok |-> TRUE, n |-> k] : k \in 0..MaxRecords}

Airtable(op, table, res, data) == Call(op, 0, table, res, data)

EventRow(i) ==
    [title |-> "Event" \o IntToStr(i), date |-> "2030-01-0" \o IntToStr(i),
     eventCode |-> "EV" \o IntToStr(i), registrationUrl |-> "url" \o IntToStr(i),
     status |-> IF i % 2 = 1 THEN "Upcoming" ELSE "Past"]

\* route.ts 232-253
getUpcomingEvents(l) ==
    IF ~getAirtableBase \/ cfg.AIRTABLE_EVENTS_TABLE_ID = ""
    THEN [rows |-> <<>>, calls |-> <<>>]
    ELSE [rows |-> IF l.ok THEN [i \in 1..l.n |-> EventRow(i)] ELSE <<>>,
          calls |-> <<Airtable("select.all", cfg.AIRTABLE_EVENTS_TABLE_ID,
                               IF l.ok THEN "ok" ELSE "error",
                               "IS_AFTER({Date}, TODAY())")>>]

\* route.ts 255-272
getAllEventsAdmin(l) ==
    IF ~getAirtableBase \/ cfg.AIRTABLE_EVENTS_TABLE_ID = ""
    THEN [rows |-> <<>>, calls |-> <<>>]
    ELSE [rows |-> IF l.ok THEN [i \in 1..l.n |-> EventRow(i)] ELSE <<>>,
          calls |-> <<Airtable("select.all", cfg.AIRTABLE_EVENTS_TABLE_ID,
                               IF l.ok THEN "ok" ELSE "error", "")>>]

\* route.ts 296-316
logSubmission(telegramUserId, submissionText, type, context, d) ==
    IF ~getAirtableBase \/ cfg.AIRTABLE_QUESTIONS_TABLE_ID = ""
    THEN [value |-> FALSE, calls |-> <<>>]
    ELSE [value |-> d = "ok",
          calls |-> <<Airtable("create", cfg.AIRTABLE_QUESTIONS_TABLE_ID, d,
                               [submission |-> submissionText, type |-> type,
                                user |-> IntToStr(telegramUserId),
                                context |-> context])>>]

NotConfiguredText == "Airtable for events not configured."
MissingFieldsText ==
    "Missing required fields. Please provide at least 'title', 'date' (YYYY-MM-DD), and 'code'."

OrEmpty(x) == IF Falsy(x) THEN "" ELSE x

\* A createEvent that stores the code as typed
createEventRawCode(a, d) ==
    IF ~getAirtableBase \/ cfg.AIRTABLE_EVENTS_TABLE_ID = ""
    THEN [success |-> FALSE, message |-> NotConfiguredText, calls |-> <<>>]
    ELSE IF Falsy(Field(a, "title")) \/ Falsy(Field(a, "date")) \/ Falsy(Field(a, "code"))
    THEN [success |-> FALSE, message |-> MissingFieldsText, calls |-> <<>>]
    ELSE [success |-> d = "ok",
          message |-> IF d = "ok" THEN "created" ELSE "Failed to create event in Airtable.",
          calls |-> <<Airtable("create", cfg.AIRTABLE_EVENTS_TABLE_ID, d,
                       [Title |-> Field(a, "title"), Date |-> Field(a, "date"),
                        Description |-> OrEmpty(Field(a, "description")),
                        RegistrationURL |-> OrEmpty(Field(a, "link")),
                        EventCode |-> Field(a, "code"), Published |-> TRUE])>>]

\* route.ts 331-356
createEvent(a, d) ==
    IF ~getAirtableBase \/ cfg.AIRTABLE_EVENTS_TABLE_ID = ""
    THEN [success |-> FALSE, message |-> NotConfiguredText, calls |-> <<>>]
    ELSE IF Falsy(Field(a, "title")) \/ Falsy(Field(a, "date")) \/ Falsy(Field(a, "code"))
    THEN [success |-> FALSE, message |-> MissingFieldsText, calls |-> <<>>]
    ELSE [success |-> d = "ok",
          message |->
              IF d = "ok"
              THEN "Event \"" \o Field(a, "title") \o "\" created successfully with code '"
                   \o toUpperCase(Field(a, "code")) \o "'."
              ELSE "Failed to create event in Airtable.",
          calls |-> <<Airtable("create", cfg.AIRTABLE_EVENTS_TABLE_ID, d,
                       [Title |-> Field(a, "title"), Date |-> Field(a, "date"),
                        Description |-> OrEmpty(Field(a, "description")),
                        RegistrationURL |-> OrEmpty(Field(a, "link")),
                        EventCode |-> toUpperCase(Field(a, "code")),
                        Published |-> TRUE])>>]

\* fieldsToUpdate, route.ts 377-385: the fields set, and Published when closing
FieldsToUpdate(a) ==
    [Title |-> OrEmpty(Field(a, "title")), Date |-> OrEmpty(Field(a, "date")),
     Description |-> OrEmpty(Field(a, "description")),
     RegistrationURL |-> OrEmpty(Field(a, "link")),
     Unpublish |-> ~Falsy(Field(a, "status"))
                   /\ toLowerCase(OrEmpty(Field(a, "status"))) = "closed"]

\* An updateEvent that goes on to the update when the lookup found no record
updateEventUnfound(eventCode, a, sel, upd) ==
    IF ~getAirtableBase \/ cfg.AIRTABLE_EVENTS_TABLE_ID = ""
    THEN [success |-> FALSE, message |-> NotConfiguredText, calls |-> <<>>]
    ELSE IF DOMAIN a = {}
    THEN [success |-> FALSE, message |-> "No fields provided to update.", calls |-> <<>>]
    ELSE IF sel = "error"
    THEN [success |-> FALSE, message |-> "Failed to update event.",
          calls |-> <<Airtable("select.firstPage", cfg.AIRTABLE_EVENTS_TABLE_ID, sel,
                               "UPPER({EventCode}) = \"" \o toUpperCase(eventCode) \o "\"")>>]
    ELSE [success |-> upd = "ok",
          message |-> IF upd = "ok"
                      THEN "Event '" \o toUpperCase(eventCode) \o "' updated successfully."
                      ELSE "Failed to update event.",
          calls |-> <<Airtable("select.firstPage", cfg.AIRTABLE_EVENTS_TABLE_ID, sel,
                               "UPPER({EventCode}) = \"" \o toUpperCase(eventCode) \o "\""),
                      Airtable("update", cfg.AIRTABLE_EVENTS_TABLE_ID, upd,
                               FieldsToUpdate(a))>>]

\* route.ts 358-394
updateEvent(eventCode, a, sel, upd) ==
    IF ~getAirtableBase \/ cfg.AIRTABLE_EVENTS_TABLE_ID = ""
    THEN [success |-> FALSE, message |-> NotConfiguredText, calls |-> <<>>]
    ELSE IF DOMAIN a = {}
    THEN [success |-> FALSE, message |-> "No fields provided to update.", calls |-> <<>>]
    ELSE LET find == Airtable("select.firstPage", cfg.AIRTABLE_EVENTS_TABLE_ID, sel,
                              "UPPER({EventCode}) = \"" \o toUpperCase(eventCode) \o "\"")
             update == Airtable("update", cfg.AIRTABLE_EVENTS_TABLE_ID, upd,
                                FieldsToUpdate(a))
         IN  CASE sel = "error" ->
                    [success |-> FALSE, message |-> "Failed to update event.",
                     calls |-> <<find>>]
               [] sel = "none" ->
                    [success |-> FALSE,
                     message |-> "Event with code '" \o toUpperCase(eventCode)
                                 \o "' not found.",
                     calls |-> <<find>>]
               [] OTHER ->
                    [success |-> upd = "ok",
                     message |-> IF upd = "ok"
                                 THEN "Event '" \o toUpperCase(eventCode)
                                      \o "' updated successfully."
                                 ELSE "Failed to update event.",
                     calls |-> <<find, update>>]

-----------------------------------------------------------------------------
(* Verification, route.ts 94-116, 209-230, 398-434 *)

\* /AETH-?[A-Z0-9]{4,}/i anchored at position i
AetherIdAt(s, i) ==
    /\ i + 3 <= Len(s)
    /\ toUpperCase(SubSeq(s, i, i + 3)) = "AETH"
    /\ \/ /\ i + 7 <= Len(s)
          /\ \A j \in (i + 4)..(i + 7) : IsAlnum(CharAt(s, j))
       \/ /\ i + 8 <= Len(s)
          /\ CharAt(s, i + 4) = "-"
          /\ \A j \in (i + 5)..(i + 8) : IsAlnum(CharAt(s, j))

\* /AETH-?[A-Z0-9]{4,}/i.test(s)
AetherIdTest(s) == \E i \in 1..Len(s) : AetherIdAt(s, i)

\* What the member lookup can come to: a record with or without a fullName,
\* no record, or an error
MemberFindOutcomes == {"found", "found_unnamed", "none", "error"}

MemberFullName == "Ada Member"

\* route.ts 209-230
verifyMember(aetherId, sel) ==
    IF ~getAirtableBase \/ cfg.AIRTABLE_MEMBERS_TABLE_ID = ""
    THEN [verified |-> FALSE, fullName |-> Undefined, calls |-> <<>>]
    ELSE [verified |-> sel \in {"found", "found_unnamed"},
          fullName |-> IF sel = "found" THEN MemberFullName ELSE Undefined,
          calls |-> <<Airtable("select.firstPage", cfg.AIRTABLE_MEMBERS_TABLE_ID, sel,
                               "UPPER({aetherId}) = \"" \o toUpperCase(aetherId) \o "\"")>>]

InviteLink == "https://t.me/+invite"

\* route.ts 94-116: the link, or null (here the empty string)
createInviteLink(f) ==
    [link |-> IF f = "ok" THEN InviteLink ELSE "",
     calls |-> <<[op |-> "createChatInviteLink", chat |-> cfg.TELEGRAM_GROUP_CHAT_ID,
                  target |-> 0, text |-> "", res |-> f, data |-> "member_limit=1"]>>]

ProvideIdText == "Please provide your Aether ID."
FormatHintText ==
    "Please provide your Aether ID in the format 'AETH-XX12' or 'AETHADM-XXXXXX'."
VerificationFailedText ==
    "Verification failed. Please check your Aether ID and try again. You can get your ID by joining at aether.build/join."
SuccessMessage(fullName) ==
    "Verification successful! Welcome, " \o fullName
    \o ".\n\n*Here's what you can do:*\n\n/events - View upcoming events.\n"
    \o "/ask [your question] - Ask a general question to the community.\n"
    \o "/asklive [event_code] [your question] - Ask a question during a live event.\n"
    \o "/suggest [your idea] - Submit a suggestion."

\* A handleVerification that never asks for an invite link
handleVerificationNoInvite(aetherId, sel, f) ==
    IF Falsy(aetherId) THEN Send(ProvideIdText, 0, NoMarkup)
    ELSE IF ~AetherIdTest(aetherId) THEN Send(FormatHintText, 0, NoMarkup)
    ELSE LET result == verifyMember(aetherId, sel)
         IN  Then(R(result.calls, "next"),
                  IF result.verified /\ ~Falsy(result.fullName)
                  THEN Send(SuccessMessage(result.fullName), 0, NoMarkup)
                  ELSE Send(VerificationFailedText, 0, NoMarkup))

\* A handleVerification that looks any code up, whatever its shape
handleVerificationUnshaped(aetherId, sel, f) ==
    IF Falsy(aetherId) THEN Send(ProvideIdText, 0, NoMarkup)
    ELSE LET result == verifyMember(aetherId, sel)
         IN  Then(R(result.calls, "next"),
                  IF result.verified /\ ~Falsy(result.fullName)
                  THEN IF cfg.TELEGRAM_GROUP_CHAT_ID # ""
                       THEN Then(R(createInviteLink(f).calls, "next"),
                                 Send(SuccessMessage(result.fullName), 0,
                                      createInviteLink(f).link))
                       ELSE Send(SuccessMessage(result.fullName), 0, NoMarkup)
                  ELSE Send(VerificationFailedText, 0, NoMarkup))

\* route.ts 398-434
handleVerification(aetherId, sel, f) ==
    IF Falsy(aetherId) THEN Send(ProvideIdText, 0, NoMarkup)
    ELSE IF ~AetherIdTest(aetherId) THEN Send(FormatHintText, 0, NoMarkup)
    ELSE LET result == verifyMember(aetherId, sel)
         IN  Then(R(result.calls, "next"),
                  IF result.verified /\ ~Falsy(result.fullName)
                  THEN IF cfg.TELEGRAM_GROUP_CHAT_ID # ""
                       THEN Then(R(createInviteLink(f).calls, "next"),
                                 Send(SuccessMessage(result.fullName), 0,
                                      createInviteLink(f).link))
                       ELSE Send(SuccessMessage(result.fullName), 0, NoMarkup)
                  ELSE Send(VerificationFailedText, 0, NoMarkup))

-----------------------------------------------------------------------------
(* POST, route.ts 496-638: general and admin commands *)

RedirectText ==
    "To keep our chat clean, please use this command in a private message with me."
BotUsername == "AetherBot"

\* route.ts 501-517: the getMe answer is read outside any try of its own
PrivateOnlyRedirect(g) ==
    Then(R(<<Call("getMe", 0, "", g, "")>>, IF g = "ok" THEN "next" ELSE "throw"),
         Then(Send(RedirectText, msg.message_id, "https://t.me/" \o BotUsername),
              R(<<>>, "return")))

RECURSIVE AdminEventList(_)
AdminEventList(rows) ==
    IF Len(rows) = 0 THEN ""
    ELSE "*" \o Head(rows).title \o "*\nCode: '" \o Head(rows).eventCode
         \o "' | Status: *" \o Head(rows).status \o "*\nDate: " \o Head(rows).date
         \o "\n\n" \o AdminEventList(Tail(rows))

\* route.ts 522-573, for a sender found privileged
AdminEventSwitch(sel, upd, d, l) ==
    CASE command = "/createevent" ->
            LET createResult == createEvent(parseCommandArgs(join(args)), d)
            IN  Then(R(createResult.calls, "next"),
                     Then(Send(createResult.message, msg.message_id, NoMarkup),
                          R(<<>>, "return")))
      [] command = "/updateevent" ->
            IF Falsy(At(args, 1))
            THEN Send("Usage: '/updateevent <event_code> key=\"value\" ...'", 0, NoMarkup)
            ELSE LET updateResult ==
                         updateEvent(args[1], parseCommandArgs(join(Tail(args))), sel, upd)
                 IN  Then(R(updateResult.calls, "next"),
                          Then(Send(updateResult.message, msg.message_id, NoMarkup),
                               R(<<>>, "return")))
      [] command = "/closeevent" ->
            IF Falsy(At(args, 1))
            THEN Send("Usage: '/closeevent <event_code>'", 0, NoMarkup)
            ELSE LET closeResult ==
                         updateEvent(args[1], [k \in {"status"} |-> "closed"], sel, upd)
                 IN  Then(R(closeResult.calls, "next"),
                          Then(Send(closeResult.message, msg.message_id, NoMarkup),
                               R(<<>>, "return")))
      [] command = "/listevents" ->
            LET adminEvents == getAllEventsAdmin(l)
            IN  Then(R(adminEvents.calls, "next"),
                     Then(Send(IF Len(adminEvents.rows) > 0
                               THEN "*All Events:*\n\n" \o AdminEventList(adminEvents.rows)
                               ELSE "No events found.",
                               msg.message_id, NoMarkup),
                          R(<<>>, "return")))
      [] command = "/registrations" ->
            IF Falsy(At(args, 1)) \/ cfg.AIRTABLE_BASE_ID = ""
               \/ cfg.AIRTABLE_EVENTS_TABLE_ID = ""
            THEN Send("Usage: '/registrations <event_code>'", 0, NoMarkup)
            ELSE Then(Send("View registrations for '" \o toUpperCase(args[1])
                           \o "' in Airtable:\n\nhttps://airtable.com/"
                           \o cfg.AIRTABLE_BASE_ID \o "/" \o cfg.AIRTABLE_EVENTS_TABLE_ID
                           \o "?filter_EventCode=" \o toUpperCase(args[1]),
                           msg.message_id, NoMarkup),
                      R(<<>>, "return"))
      [] OTHER -> R(<<>>, "next")

\* An admin check that takes the sender's word in a private chat
isSenderAdminOpenPrivate(o) ==
    IF msg.chat.id < 0 THEN isUserAdmin(msg.chat.id, msg.from, o) ELSE TRUE

\* route.ts 520
isSenderAdmin(o) ==
    IF msg.chat.id < 0
    THEN isUserAdmin(msg.chat.id, msg.from, o)
    ELSE IdIsNumber(msg.from, cfg.TELEGRAM_ADMIN_ID)

\* route.ts 519-574
AdminEventBlock(o, sel, upd, d, l) ==
    Then(R(IF msg.chat.id < 0 THEN isUserAdminCalls(msg.chat.id, msg.from, o) ELSE <<>>,
           "next"),
         IF isSenderAdmin(o) THEN AdminEventSwitch(sel, upd, d, l) ELSE R(<<>>, "next"))

WelcomeText ==
    "Welcome to the Aether Bot! Please verify your identity by sending your Aether ID (e.g., 'AETH-XX12')."
NotRecognizedText == "Sorry, I don't recognize that command."

RECURSIVE EventList(_)
EventList(rows) ==
    IF Len(rows) = 0 THEN ""
    ELSE "*" \o Head(rows).title \o "* (Code: '" \o Head(rows).eventCode
         \o "')\n[Register Here](" \o Head(rows).registrationUrl \o ")\n\n"
         \o EventList(Tail(rows))

\* A general switch whose fallback does not set the admin-event commands aside
GeneralSwitchFallbackAll(sel, f, d, l) ==
    CASE command = "/start" -> Send(WelcomeText, 0, NoMarkup)
      [] command = "/verify" -> handleVerification(At(args, 1), sel, f)
      [] command = "/events" ->
            LET events == getUpcomingEvents(l)
            IN  Then(R(events.calls, "next"),
                     Send(IF Len(events.rows) > 0
                          THEN "*Upcoming Events:*\n\n" \o EventList(events.rows)
                          ELSE "No upcoming events right now. Check back soon!",
                          0, NoMarkup))
      [] command = "/ask" ->
            IF join(args) = ""
            THEN Send("Usage: '/ask How do I join Horizon Studio?'", 0, NoMarkup)
            ELSE Then(R(logSubmission(msg.from, join(args), "Questions", "General", d).calls,
                        "next"),
                      Send("Thanks! Your question has been submitted.", 0, NoMarkup))
      [] command = "/asklive" ->
            IF Falsy(At(args, 1)) \/ join(Tail(args)) = ""
            THEN Send("Usage: '/asklive WAD25 How do you see AI impacting architecture?'",
                      0, NoMarkup)
            ELSE Then(R(logSubmission(msg.from, join(Tail(args)), "Questions",
                                      toUpperCase(args[1]), d).calls, "next"),
                      Send("Thanks! Your question for event *" \o toUpperCase(args[1])
                           \o "* has been submitted.", 0, NoMarkup))
      [] command = "/suggest" ->
            IF join(args) = ""
            THEN Send("Usage: '/suggest We should have a portfolio review session.'",
                      0, NoMarkup)
            ELSE Then(R(logSubmission(msg.from, join(args), "Suggestions", "General",
                                      d).calls, "next"),
                      Send("Great idea! Your suggestion has been recorded.", 0, NoMarkup))
      [] OTHER ->
            IF /\ msg.chat.type = "private"
               /\ command \notin ModerationCommands
            THEN Send(NotRecognizedText, 0, NoMarkup)
            ELSE R(<<>>, "next")

\* route.ts 576-638
GeneralSwitch(sel, f, d, l) ==
    CASE command = "/start" -> Send(WelcomeText, 0, NoMarkup)
      [] command = "/verify" -> handleVerification(At(args, 1), sel, f)
      [] command = "/events" ->
            LET events == getUpcomingEvents(l)
            IN  Then(R(events.calls, "next"),
                     Send(IF Len(events.rows) > 0
                          THEN "*Upcoming Events:*\n\n" \o EventList(events.rows)
                          ELSE "No upcoming events right now. Check back soon!",
                          0, NoMarkup))
      [] command = "/ask" ->
            IF join(args) = ""
            THEN Send("Usage: '/ask How do I join Horizon Studio?'", 0, NoMarkup)
            ELSE Then(R(logSubmission(msg.from, join(args), "Questions", "General", d).calls,
                        "next"),
                      Send("Thanks! Your question has been submitted.", 0, NoMarkup))
      [] command = "/asklive" ->
            IF Falsy(At(args, 1)) \/ join(Tail(args)) = ""
            THEN Send("Usage: '/asklive WAD25 How do you see AI impacting architecture?'",
                      0, NoMarkup)
            ELSE Then(R(logSubmission(msg.from, join(Tail(args)), "Questions",
                                      toUpperCase(args[1]), d).calls, "next"),
                      Send("Thanks! Your question for event *" \o toUpperCase(args[1])
                           \o "* has been submitted.", 0, NoMarkup))
      [] command = "/suggest" ->
            IF join(args) = ""
            THEN Send("Usage: '/suggest We should have a portfolio review session.'",
                      0, NoMarkup)
            ELSE Then(R(logSubmission(msg.from, join(args), "Suggestions", "General",
                                      d).calls, "next"),
                      Send("Great idea! Your suggestion has been recorded.", 0, NoMarkup))
      [] OTHER ->
            IF /\ msg.chat.type = "private"
               /\ command \notin ModerationCommands
               /\ command \notin adminEventCommands
            THEN Send(NotRecognizedText, 0, NoMarkup)
            ELSE R(<<>>, "next")

-----------------------------------------------------------------------------
(* POST, route.ts 639-660: text that is not a command *)

ReportLimit == 4000

RECURSIVE Doubled(_, _)
Doubled(s, k) == IF k = 0 THEN s ELSE Doubled(s \o s, k - 1)

\* A submission of 2048 characters: two of them pass the report's limit
LongSubmission == Doubled("x", 11)

SubmissionRow(i) ==
    [submission |-> LongSubmission,
     type |-> IF i % 2 = 1 THEN "Questions" ELSE "Suggestions",
     context |-> "General"]

\* route.ts 275-294
getAllSubmissions(l) ==
    IF ~getAirtableBase \/ cfg.AIRTABLE_QUESTIONS_TABLE_ID = ""
    THEN [rows |-> <<>>, calls |-> <<>>]
    ELSE [rows |-> IF l.ok THEN [i \in 1..l.n |-> SubmissionRow(i)] ELSE <<>>,
          calls |-> <<Airtable("select.all", cfg.AIRTABLE_QUESTIONS_TABLE_ID,
                               IF l.ok THEN "ok" ELSE "error", "")>>]

RECURSIVE Report(_)
Report(rows) ==
    IF Len(rows) = 0 THEN ""
    ELSE "*" \o Head(rows).type \o "* | Context: *" \o Head(rows).context \o "* \n> "
         \o Head(rows).submission \o "\n\n" \o Report(Tail(rows))

AuthenticatedText == "Admin authentication successful. Fetching all submissions..."
TooLongText == "Report is too long for one message. Sending recent entries:"
HelpNudgeText ==
    "Hi there! I can only respond to commands right now. Try '/start' to see your options."

\* A free-text branch that sends the help nudge in every chat
FreeTextBlockNudgeAll(l, sel, f) ==
    IF /\ cfg.TELEGRAM_ADMIN_ID # ""
       /\ toUpperCase(msg.text) = toUpperCase(cfg.TELEGRAM_ADMIN_ID)
    THEN LET submissions == getAllSubmissions(l)
             report == "*All Community Submissions:*\n\n" \o Report(submissions.rows)
         IN  Then(Send(AuthenticatedText, 0, NoMarkup),
                  Then(R(submissions.calls, "next"),
                       IF Len(submissions.rows) > 0
                       THEN IF Len(report) > ReportLimit
                            THEN Then(Send(TooLongText, 0, NoMarkup),
                                      Send(SubSeq(report, 1, ReportLimit), 0, NoMarkup))
                            ELSE Send(report, 0, NoMarkup)
                       ELSE Send("No submissions found.", 0, NoMarkup)))
    ELSE IF AetherIdTest(msg.text) THEN handleVerification(msg.text, sel, f)
    ELSE Send(HelpNudgeText, 0, NoMarkup)

\* A free-text branch that compares the text with the identifier even when
\* none is configured
FreeTextBlockUnguarded(l, sel, f) ==
    IF toUpperCase(msg.text) = toUpperCase(cfg.TELEGRAM_ADMIN_ID)
    THEN LET submissions == getAllSubmissions(l)
             report == "*All Community Submissions:*\n\n" \o Report(submissions.rows)
         IN  Then(Send(AuthenticatedText, 0, NoMarkup),
                  Then(R(submissions.calls, "next"),
                       IF Len(submissions.rows) > 0
                       THEN IF Len(report) > ReportLimit
                            THEN Then(Send(TooLongText, 0, NoMarkup),
                                      Send(SubSeq(report, 1, ReportLimit), 0, NoMarkup))
                            ELSE Send(report, 0, NoMarkup)
                       ELSE Send("No submissions found.", 0, NoMarkup)))
    ELSE IF AetherIdTest(msg.text) THEN handleVerification(msg.text, sel, f)
    ELSE IF msg.chat.type = "private" THEN Send(HelpNudgeText, 0, NoMarkup)
    ELSE R(<<>>, "next")

\* route.ts 639-660
FreeTextBlock(l, sel, f) ==
    IF /\ cfg.TELEGRAM_ADMIN_ID # ""
       /\ toUpperCase(msg.text) = toUpperCase(cfg.TELEGRAM_ADMIN_ID)
    THEN LET submissions == getAllSubmissions(l)
             report == "*All Community Submissions:*\n\n" \o Report(submissions.rows)
         IN  Then(Send(AuthenticatedText, 0, NoMarkup),
                  Then(R(submissions.calls, "next"),
                       IF Len(submissions.rows) > 0
                       THEN IF Len(report) > ReportLimit
                            THEN Then(Send(TooLongText, 0, NoMarkup),
                                      Send(SubSeq(report, 1, ReportLimit), 0, NoMarkup))
                            ELSE Send(report, 0, NoMarkup)
                       ELSE Send("No submissions found.", 0, NoMarkup)))
    ELSE IF AetherIdTest(msg.text) THEN handleVerification(msg.text, sel, f)
    ELSE IF msg.chat.type = "private" THEN Send(HelpNudgeText, 0, NoMarkup)
    ELSE R(<<>>, "next")

-----------------------------------------------------------------------------
(* The POST handler, route.ts 437-672, one action per stage *)

StatusOk == 200
StatusError == 500

\* The senders that the calls of a stage resolved as chat admin
Resolved(calls) ==
    {msg.from} \cap
    {c.target : c \in {calls[i] : i \in {j \in 1..Len(calls) :
                                            /\ calls[j].op = "getChatMember"
                                            /\ isUserAdmin(msg.chat.id, calls[j].target,
                                                           calls[j].res)}}}

\* A stage whose exceptions are answered like a completed delivery
StepAlwaysOk(r, next) ==
    /\ log' = log \o r.calls
    /\ everAdmin' = everAdmin \cup Resolved(r.calls)
    /\ pc' = IF r.exit = "next" THEN next ELSE "done"
    /\ response' = IF r.exit = "next" /\ next # "done" THEN response ELSE StatusOk
    /\ UNCHANGED <<cfg, msg, input, output>>

\* A stage that came to r: its calls are issued; an exception is answered
\* with a 500 by the catch of POST, a return and the end of the handler with
\* a 200; otherwise the handler goes on at `next`
Step(r, next) ==
    /\ log' = log \o r.calls
    /\ everAdmin' = everAdmin \cup Resolved(r.calls)
    /\ pc' = IF r.exit = "next" THEN next ELSE "done"
    /\ response' = CASE r.exit = "throw" -> StatusError
                     [] r.exit = "return" -> StatusOk
                     [] OTHER -> IF next = "done" THEN StatusOk ELSE response
    /\ UNCHANGED <<cfg, msg, input, output>>

\* route.ts 437-440: without a bot token the request is answered 500 unread
RejectUnconfigured ==
    /\ pc = "idle"
    /\ cfg.TELEGRAM_BOT_TOKEN = ""
    /\ pc' = "done"
    /\ response' = StatusError
    /\ UNCHANGED <<cfg, msg, log, everAdmin, input, output>>

\* route.ts 442-447: a delivery arrives and its body is read
Receive ==
    /\ pc = "idle"
    /\ cfg.TELEGRAM_BOT_TOKEN # ""
    /\ \E m \in Deliveries :
          /\ msg' = m
          /\ log' = <<>>
          /\ IF ~m.present
             THEN pc' = "done" /\ response' = StatusOk
             ELSE pc' = "moderation" /\ response' = 0
    /\ UNCHANGED <<cfg, everAdmin, input, output>>

\* How many of the calls r issued are requests of the kinds `ops`
Issued(r, ops) == Cardinality({i \in 1..Len(r.calls) : r.calls[i].op \in ops})

\* The answers to draw for a request: all of S when the handler, run with
\* the answers drawn so far, makes the request; one of them when it does not
\* (an answer nobody asks for changes nothing)
Answers(S, asked) == IF asked THEN S ELSE {CHOOSE x \in S : TRUE}

ModerationRequests ==
    {"banChatMember", "unbanChatMember", "restrictChatMember", "deleteMessage"}

\* route.ts 449-493
Moderation ==
    /\ pc = "moderation"
    /\ \E o1 \in MemberOutcomes :
       \E o2 \in Answers(MemberOutcomes,
                         Issued(ModerationBlock(o1, "member", "ok", "ok"),
                                {"getChatMember"}) >= 2) :
       \E f1 \in Answers(FetchOutcomes,
                         Issued(ModerationBlock(o1, o2, "ok", "ok"),
                                ModerationRequests) >= 1) :
       \E f2 \in Answers(FetchOutcomes,
                         Issued(ModerationBlock(o1, o2, f1, "ok"),
                                ModerationRequests) >= 2) :
          Step(ModerationBlock(o1, o2, f1, f2), "route")

\* route.ts 500-517
Redirect ==
    /\ pc = "route"
    /\ startsWith(msg.text, "/")
    /\ msg.chat.type # "private" /\ command \in PrivateOnlyCommands
    /\ \E g \in GetMeOutcomes : Step(PrivateOnlyRedirect(g), "done")

AnyList == [ok |-> TRUE, n |-> 0]

\* route.ts 519-574
AdminEvents ==
    /\ pc = "route"
    /\ startsWith(msg.text, "/")
    /\ ~(msg.chat.type # "private" /\ command \in PrivateOnlyCommands)
    /\ \E o \in Answers(MemberOutcomes,
                        Issued(AdminEventBlock("member", "found", "ok", "ok", AnyList),
                               {"getChatMember"}) >= 1) :
       \E sel \in Answers(FindOutcomes,
                          Issued(AdminEventBlock(o, "found", "ok", "ok", AnyList),
                                 {"select.firstPage"}) >= 1) :
       \E upd \in Answers(WriteOutcomes,
                          Issued(AdminEventBlock(o, sel, "ok", "ok", AnyList),
                                 {"update"}) >= 1) :
       \E d \in Answers(WriteOutcomes,
                        Issued(AdminEventBlock(o, sel, upd, "ok", AnyList),
                               {"create"}) >= 1) :
       \E l \in Answers(ListOutcomes,
                        Issued(AdminEventBlock(o, sel, upd, d, AnyList),
                               {"select.all"}) >= 1) :
          Step(AdminEventBlock(o, sel, upd, d, l), "commands")

\* route.ts 576-638
GeneralCommands ==
    /\ pc = "commands"
    /\ \E sel \in Answers(MemberFindOutcomes,
                          Issued(GeneralSwitch("found", "ok", "ok", AnyList),
                                 {"select.firstPage"}) >= 1) :
       \E f \in Answers(FetchOutcomes,
                        Issued(GeneralSwitch(sel, "ok", "ok", AnyList),
                               {"createChatInviteLink"}) >= 1) :
       \E d \in Answers(WriteOutcomes,
                        Issued(GeneralSwitch(sel, f, "ok", AnyList), {"create"}) >= 1) :
       \E l \in Answers(ListOutcomes,
                        Issued(GeneralSwitch(sel, f, d, AnyList), {"select.all"}) >= 1) :
          Step(GeneralSwitch(sel, f, d, l), "done")

\* route.ts 639-660
FreeText ==
    /\ pc = "route"
    /\ ~startsWith(msg.text, "/")
    /\ \E l \in Answers(ListOutcomes,
                        Issued(FreeTextBlock(AnyList, "found", "ok"),
                               {"select.all"}) >= 1) :
       \E sel \in Answers(MemberFindOutcomes,
                          Issued(FreeTextBlock(l, "found", "ok"),
                                 {"select.firstPage"}) >= 1) :
       \E f \in Answers(FetchOutcomes,
                        Issued(FreeTextBlock(l, sel, "ok"),
                               {"createChatInviteLink"}) >= 1) :
          Step(FreeTextBlock(l, sel, f), "done")

\* route.ts 663, 670: the response is sent and the delivery is over
Respond ==
    /\ pc = "done"
    /\ pc' = "idle"
    /\ msg' = NoMessage
    /\ log' = <<>>
    /\ response' = 0
    /\ UNCHANGED <<cfg, everAdmin, input, output>>

Init ==
    /\ cfg \in Configs
    /\ pc = "idle"
    /\ msg = NoMessage
    /\ log = <<>>
    /\ response = 0
    /\ everAdmin = {}
    /\ input = "" /\ output = 0

Next ==
    \/ RejectUnconfigured
    \/ Receive
    \/ Moderation
    \/ Redirect
    \/ AdminEvents
    \/ GeneralCommands
    \/ FreeText
    \/ Respond

Spec == Init /\ [][Next]_vars

-----------------------------------------------------------------------------
(* The two parsers on their own: every input of a bounded set is given to  *)
(* the parser once.                                                        *)

\* The strings of at most n characters of alphabet A
RECURSIVE Strings(_, _)
Strings(A, n) ==
    IF n = 0 THEN {""}
    ELSE LET S == Strings(A, n - 1) IN S \cup {s \o c : s \in S, c \in A}

MaxDurationLen == 3
DurationAlphabet == {"0", "1", "3", "5", "7", "h", "d", "m", "x", "a", "b", "c", " "}
DurationInputs == Strings(DurationAlphabet, MaxDurationLen)

InitDuration ==
    /\ cfg = FullConfig
    /\ pc = "idle"
    /\ msg = NoMessage
    /\ log = <<>>
    /\ response = 0
    /\ everAdmin = {}
    /\ input \in DurationInputs
    /\ output = 0

\* route.ts 474: const duration = parseMuteDuration(args[0])
ParseDuration ==
    /\ pc = "idle"
    /\ output' = parseMuteDuration(input)
    /\ pc' = "done"
    /\ UNCHANGED <<cfg, msg, log, response, everAdmin, input>>

NextDuration == ParseDuration

SpecDuration == InitDuration /\ [][NextDuration]_vars

\* The pieces a command's arguments are made of: key="value" pairs, pieces
\* that are not of that shape, and the two halves of a value with a space
MaxTokens == 3
ArgTokens ==
    {"a=\"1\"", "a=\"2\"", "b=\"1\"", "title=\"A\"", "date=\"2025-01-01\"",
     "title=A", "=\"x\"", "a=\"\"", "x", "t=\"A", "B\""}

\* The sequences of at most n pieces
RECURSIVE TokenSeqs(_)
TokenSeqs(n) ==
    IF n = 0 THEN {<<>>}
    ELSE LET S == TokenSeqs(n - 1) IN S \cup {Append(a, t) : a \in S, t \in ArgTokens}

InitArgs ==
    /\ cfg = FullConfig
    /\ pc = "idle"
    /\ msg = NoMessage
    /\ log = <<>>
    /\ response = 0
    /\ everAdmin = {}
    /\ input \in TokenSeqs(MaxTokens)
    /\ output = NoArgs

\* route.ts 498, 524: parseCommandArgs(args.join(' '))
ParseArgs ==
    /\ pc = "idle"
    /\ output' = parseCommandArgs(join(input))
    /\ pc' = "done"
    /\ UNCHANGED <<cfg, msg, log, response, everAdmin, input>>

NextArgs == ParseArgs

SpecArgs == InitArgs /\ [][NextArgs]_vars

-----------------------------------------------------------------------------
(* What the claims speak of *)

AdminRoles == {"creator", "administrator"}
FailedQuery == {"not_ok", "bad_shape", "network_error"}

InGroup == msg.present /\ msg.chat.type # "private"
InPrivate == msg.present /\ msg.chat.type = "private"
IsCommand == msg.present /\ startsWith(msg.text, "/")

\* The calls of this delivery that are requests of the kinds `ops`
CallsOf(ops) == {i \in 1..Len(log) : log[i].op \in ops}

Replies == CallsOf({"sendMessage"})
RepliesWith(text) == {i \in Replies : log[i].text = text}
DatastoreCalls == CallsOf({"select.firstPage", "select.all", "create", "update"})
ModerationCalls == CallsOf(ModerationRequests)

\* The membership queries about user u, in the order they were made
QueriesAbout(u) == {i \in CallsOf({"getChatMember"}) : log[i].target = u}
SenderQueries == QueriesAbout(msg.from)
TargetQueries == QueriesAbout(msg.reply_to_message.from)

\* The k-th membership query about the sender, when there is one
NthSenderQuery(k) ==
    {i \in SenderQueries : Cardinality({j \in SenderQueries : j <= i}) = k}

\* The query of route.ts 451 and that of route.ts 520 answered with an admin role
SenderAdminAt451 == \E i \in NthSenderQuery(1) : log[i].res \in AdminRoles
SenderAdminAt520 == \E i \in NthSenderQuery(2) : log[i].res \in AdminRoles

-----------------------------------------------------------------------------
\* C1: in a non-private chat, a moderation command (ban, mute, unmute,
\* delete) of a sender whose membership queries all answered with a role
\* other than creator/administrator gets no reply and issues no ban,
\* restrict, unban or delete request, whatever its arguments and whether or
\* not it replies to a message.
C1_NonAdminModerationSilent ==
    (/\ InGroup
     /\ command \in ModerationCommands
     /\ \A i \in SenderQueries : log[i].res \notin AdminRoles)
    => (Replies = {} /\ ModerationCalls = {})

C1_Witness ==
    /\ pc = "done" /\ response = StatusOk
    /\ InGroup
    /\ command = "/ban"
    /\ msg.reply_to_message.present
    /\ Cardinality(SenderQueries) = 2
    /\ \A i \in SenderQueries : log[i].res = "member"
    /\ Replies = {} /\ ModerationCalls = {}

\* C2: an admin-only event command makes a datastore call or sends a reply
\* only for a privileged sender: in a group, one whose membership query of
\* route.ts 520 answered creator/administrator; in a private chat, one whose
\* id is the configured TELEGRAM_ADMIN_ID.
C2_AdminEventGated ==
    (/\ IsCommand
     /\ command \in adminEventCommands
     /\ (DatastoreCalls # {} \/ Replies # {}))
    => IF msg.chat.type # "private"
       THEN SenderAdminAt520
       ELSE cfg.TELEGRAM_ADMIN_ID = IntToStr(msg.from)

C2_Witness ==
    /\ pc = "done"
    /\ InGroup
    /\ command = "/createevent"
    /\ SenderAdminAt520
    /\ \E i \in CallsOf({"create"}) : log[i].res = "ok"
    /\ Replies # {}

\* C3: a ban or mute by a chat admin, in reply to a user whose membership
\* query answered creator/administrator, gets the one reply 'cannot be used
\* on an administrator' and issues no ban or restrict request; an unmute or
\* a delete by a chat admin in reply to a message issues its restrict or
\* delete request without asking for the target's role.
C3_AdminTargetProtected ==
    /\ (/\ InGroup
        /\ command \in {"/ban", "/mute"}
        /\ msg.reply_to_message.present
        /\ SenderAdminAt451
        /\ \E i \in TargetQueries : log[i].res \in AdminRoles)
       => /\ Replies = RepliesWith(OnAdministratorText)
          /\ Cardinality(Replies) = 1
          /\ CallsOf({"banChatMember", "restrictChatMember"}) = {}
    /\ (/\ InGroup
        /\ command = "/unmute"
        /\ msg.reply_to_message.present
        /\ SenderAdminAt451)
       => /\ TargetQueries = {}
          /\ \E i \in CallsOf({"restrictChatMember"}) :
                /\ log[i].target = msg.reply_to_message.from
                /\ log[i].data.can_send_messages
    /\ (/\ InGroup
        /\ command = "/del"
        /\ msg.reply_to_message.present
        /\ SenderAdminAt451)
       => /\ TargetQueries = {}
          /\ \E i \in CallsOf({"deleteMessage"}) :
                log[i].target = msg.reply_to_message.message_id

C3_Witness ==
    /\ pc = "done" /\ response = StatusOk
    /\ InGroup
    /\ command = "/mute"
    /\ SenderAdminAt451
    /\ \E i \in TargetQueries : log[i].res = "administrator"
    /\ RepliesWith(OnAdministratorText) # {}

\* C4: a membership query that fails (network error, non-ok answer, answer
\* of an unexpected shape) resolves the user as not an admin.  A sender all
\* of whose queries failed gets no moderation request issued, no reply to a
\* moderation command and no datastore call or reply for an admin-only event
\* command, and is not recorded as resolved; a target whose query failed is
\* not protected as an administrator.
C4_FailedQueryResolvesRegular ==
    /\ (/\ InGroup /\ IsCommand
        /\ \A i \in SenderQueries : log[i].res \in FailedQuery)
       => /\ ModerationCalls = {}
          /\ command \in ModerationCommands => Replies = {}
          /\ command \in adminEventCommands => (Replies = {} /\ DatastoreCalls = {})
    /\ (/\ InGroup
        /\ command = "/ban"
        /\ SenderAdminAt451
        /\ \E i \in TargetQueries : log[i].res \in FailedQuery)
       => /\ RepliesWith(OnAdministratorText) = {}
          /\ \E i \in CallsOf({"banChatMember"}) : log[i].target = msg.reply_to_message.from

C4_Witness ==
    /\ pc = "done" /\ response = StatusOk
    /\ InGroup
    /\ command = "/listevents"
    /\ Cardinality(SenderQueries) = 2
    /\ \E i \in SenderQueries : log[i].res = "network_error"
    /\ \E i \in SenderQueries : log[i].res = "bad_shape"
    /\ Replies = {} /\ DatastoreCalls = {}

\* C5 (as claimed): a private-only command (events, ask, asklive, suggest) in
\* a non-private chat ends with exactly one reply, the redirect, and with no
\* event listing query and no submission record written.
C5_Claimed ==
    (/\ pc = "done"
     /\ InGroup
     /\ command \in PrivateOnlyCommands)
    => /\ Cardinality(Replies) = 1
       /\ Replies = RepliesWith(RedirectText)
       /\ DatastoreCalls = {}

\* C6 (as claimed): "/mute" with no duration argument, sent by a chat admin
\* in a group in reply to a user who is not an admin, is answered with the
\* 'Invalid duration' reply and issues no restrict request.
C6_Claimed ==
    (/\ pc = "done"
     /\ InGroup
     /\ msg.text = "/mute"
     /\ msg.reply_to_message.present
     /\ SenderAdminAt451
     /\ \E i \in TargetQueries : log[i].res \notin AdminRoles)
    => /\ RepliesWith(InvalidDurationText) # {}
       /\ CallsOf({"restrictChatMember"}) = {}

\* C7: a mute command whose duration token parses to 0 seconds never issues
\* a restrict request; sent by a chat admin in reply to a user who is not an
\* admin, it is answered with the 'Invalid duration' reply and with nothing
\* else, and no moderation request is issued.
C7_ZeroDurationRejected ==
    (/\ msg.present
     /\ command = "/mute"
     /\ Len(args) >= 1
     /\ parseMuteDuration(args[1]) = 0)
    => /\ CallsOf({"restrictChatMember"}) = {}
       /\ (/\ InGroup
           /\ msg.reply_to_message.present
           /\ SenderAdminAt451
           /\ \E i \in TargetQueries : log[i].res \notin AdminRoles)
          => /\ Cardinality(Replies) = 1
             /\ Replies = RepliesWith(InvalidDurationText)
             /\ ModerationCalls = {}

C7_Witness ==
    /\ pc = "done" /\ response = StatusOk
    /\ InGroup
    /\ msg.text = "/mute 0h"
    /\ SenderAdminAt451
    /\ \E i \in TargetQueries : log[i].res = "member"
    /\ RepliesWith(InvalidDurationText) # {}
    /\ CallsOf({"restrictChatMember"}) = {}

\* C8 (as claimed): the handling of a command in a group makes exactly one
\* membership query about the sender, and no reply, moderation request or
\* datastore call comes before it.
C8_Claimed ==
    (/\ pc = "done"
     /\ InGroup /\ IsCommand)
    => /\ Cardinality(SenderQueries) = 1
       /\ \A i \in Replies \cup ModerationCalls \cup DatastoreCalls :
             \E j \in SenderQueries : j < i

\* C9: nothing is remembered between deliveries.  A sender whom an earlier
\* delivery resolved as chat admin, and whose membership queries in this
\* delivery all answer with a role other than creator/administrator, is
\* handled as a regular user: no moderation request, no reply to a
\* moderation command, and no datastore call or reply for an admin-only
\* event command.
C9_NoPrivilegeCarriedOver ==
    (/\ InGroup /\ IsCommand
     /\ msg.from \in everAdmin
     /\ \A i \in SenderQueries : log[i].res \notin AdminRoles)
    => /\ ModerationCalls = {}
       /\ command \in ModerationCommands => Replies = {}
       /\ command \in adminEventCommands => (Replies = {} /\ DatastoreCalls = {})

C9_Witness ==
    /\ pc = "done" /\ response = StatusOk
    /\ InGroup
    /\ msg.from \in everAdmin
    /\ command = "/unmute"
    /\ msg.reply_to_message.present
    /\ Cardinality(SenderQueries) = 2
    /\ \A i \in SenderQueries : log[i].res = "member"
    /\ Replies = {} /\ ModerationCalls = {}

\* The arguments createEvent is given, route.ts 524
createArgs == parseCommandArgs(join(args))

\* createEvent was called: its result is the only reply to /createevent
CreateEventCalled == IsCommand /\ command = "/createevent" /\ Replies # {}

CreateArgsComplete == {"title", "date", "code"} \subseteq DOMAIN createArgs

\* Exactly one create request, for an event with the code in upper case
\* and published
OneCreateUpperPublished ==
    /\ Cardinality(CallsOf({"create"})) = 1
    /\ \A i \in CallsOf({"create"}) :
          /\ log[i].data.EventCode = toUpperCase(createArgs["code"])
          /\ log[i].data.Title = createArgs["title"]
          /\ log[i].data.Date = createArgs["date"]
          /\ log[i].data.Published

\* C10 (as claimed): createEvent without title, date or code answers with
\* the missing-fields message and issues no create request; with all three
\* it issues exactly one create request, the code in upper case and
\* published = true.
C10_Claimed ==
    (pc = "done" /\ CreateEventCalled)
    => IF CreateArgsComplete
       THEN OneCreateUpperPublished
       ELSE RepliesWith(MissingFieldsText) # {} /\ CallsOf({"create"}) = {}

\* C10 (amended): the same when the datastore credentials and the events
\* table are configured; when they are not, createEvent answers 'not
\* configured' and issues no create request, whatever its arguments.
C10_CreateEventValidated ==
    (pc = "done" /\ CreateEventCalled)
    => IF cfg.AIRTABLE_API_KEY = "" \/ cfg.AIRTABLE_BASE_ID = ""
          \/ cfg.AIRTABLE_EVENTS_TABLE_ID = ""
       THEN RepliesWith(NotConfiguredText) # {} /\ CallsOf({"create"}) = {}
       ELSE IF CreateArgsComplete
       THEN OneCreateUpperPublished
       ELSE RepliesWith(MissingFieldsText) # {} /\ CallsOf({"create"}) = {}

C10_Witness ==
    /\ pc = "done"
    /\ CreateEventCalled
    /\ CreateArgsComplete
    /\ createArgs["code"] = "c1"
    /\ \E i \in CallsOf({"create"}) : log[i].data.EventCode = "C1" /\ log[i].res = "ok"

\* The arguments updateEvent is given, route.ts 535 and 546
updateArgs ==
    IF command = "/closeevent" THEN [k \in {"status"} |-> "closed"]
    ELSE parseCommandArgs(join(Tail(args)))

\* updateEvent was called: its message is sent in reply to the command
UpdateEventCalled ==
    /\ IsCommand /\ command \in {"/updateevent", "/closeevent"}
    /\ \E i \in Replies : log[i].target = msg.message_id

\* The lookups of an event by its code, and their answers
EventLookups ==
    {i \in CallsOf({"select.firstPage"}) : log[i].text = cfg.AIRTABLE_EVENTS_TABLE_ID}

NotFoundText(eventCode) == "Event with code '" \o toUpperCase(eventCode) \o "' not found."

\* C11: updateEvent, and closeEvent (updateEvent with the one argument
\* status=closed), for an event code whose lookup finds no record returns
\* success=false and issues no update request: the only reply is the 'not
\* found' message for the code in upper case.
C11_UnknownEventNotUpdated ==
    /\ (UpdateEventCalled /\ \E i \in EventLookups : log[i].res = "none")
       => /\ CallsOf({"update"}) = {}
          /\ Cardinality(EventLookups) = 1
          /\ Cardinality(Replies) = 1
          /\ Replies = RepliesWith(NotFoundText(args[1]))
          /\ \A upd \in WriteOutcomes :
                ~updateEvent(args[1], updateArgs, "none", upd).success
    /\ (UpdateEventCalled /\ command = "/closeevent")
       => \A i \in CallsOf({"update"}) :
             log[i].data = FieldsToUpdate([k \in {"status"} |-> "closed"])

C11_Witness ==
    /\ pc = "done" /\ response = StatusOk
    /\ command = "/closeevent"
    /\ UpdateEventCalled
    /\ \E i \in EventLookups : log[i].res = "none"
    /\ RepliesWith(NotFoundText("c1")) # {}
    /\ CallsOf({"update"}) = {}

\* The mapping holds a field updateEvent knows: title, date, description,
\* link, or status = closed (route.ts 379-385)
HasRecognizedField(a) ==
    \/ \E k \in {"title", "date", "description", "link"} : ~Falsy(Field(a, k))
    \/ FieldsToUpdate(a).Unpublish

UpdatedText(eventCode) == "Event '" \o toUpperCase(eventCode) \o "' updated successfully."

\* C12 (as claimed): updateEvent with a mapping that holds none of title,
\* date, description, link or status=closed (empty, only unrecognized keys,
\* or a status other than closed) is rejected: no update request is issued
\* and the reply is not the success message.
C12_Claimed ==
    (/\ pc = "done"
     /\ UpdateEventCalled
     /\ ~HasRecognizedField(updateArgs))
    => /\ CallsOf({"update"}) = {}
       /\ RepliesWith(UpdatedText(args[1])) = {}

SubmissionCommands == {"/ask", "/asklive", "/suggest"}

\* The body a submission command needs is missing, route.ts 600, 611, 621
BodyMissing ==
    IF command = "/asklive" THEN Falsy(At(args, 1)) \/ join(Tail(args)) = ""
    ELSE join(args) = ""

AcknowledgementTexts ==
    {"Thanks! Your question has been submitted.",
     "Great idea! Your suggestion has been recorded."}
    \cup {"Thanks! Your question for event *" \o toUpperCase(At(args, 1))
          \o "* has been submitted."}

Acknowledgements == {i \in Replies : log[i].text \in AcknowledgementTexts}

\* C13 (as claimed): for ask, asklive and suggest in a private chat, a
\* missing body (for asklive, a missing event code or question) gets exactly
\* one usage reply and no submission record is written; otherwise exactly
\* one create request is issued for the submission and it precedes the
\* acknowledgement reply.
C13_Claimed ==
    (/\ pc = "done"
     /\ InPrivate
     /\ command \in SubmissionCommands)
    => IF BodyMissing
       THEN /\ Cardinality(Replies) = 1
            /\ \A i \in Replies : startsWith(log[i].text, "Usage:")
            /\ CallsOf({"create"}) = {}
       ELSE /\ Cardinality(CallsOf({"create"})) = 1
            /\ Cardinality(Acknowledgements) = 1
            /\ \A i \in CallsOf({"create"}) : \A j \in Acknowledgements : i < j

\* The calls of this delivery, other than membership queries and replies,
\* that failed: a moderation request, the getMe request or a datastore call
\* that was rejected or answered not ok
FailedCalls ==
    {i \in ModerationCalls \cup CallsOf({"getMe"}) \cup DatastoreCalls :
        log[i].res \in {"not_ok", "network_error", "bad_shape", "error"}}

\* The replies telling the user that a moderation action was taken
Confirmations == {i \in Replies : startsWith(log[i].text, "User has been ")}

\* C14 (as claimed): when a moderation request, the getMe request or a
\* datastore call of a delivery fails, the handler does not crash (the
\* delivery is answered 200), a reply follows the failed call, and no
\* confirmation or acknowledgement follows it.
C14_Claimed ==
    (/\ pc = "done"
     /\ FailedCalls # {})
    => /\ response = StatusOk
       /\ \A i \in FailedCalls :
             /\ \E j \in Replies : j > i
             /\ \A j \in Confirmations \cup Acknowledgements : j < i

\* The request a moderation command stands for
MutationOf(c) ==
    CASE c = "/ban" -> "banChatMember"
      [] c \in {"/mute", "/unmute"} -> "restrictChatMember"
      [] OTHER -> "deleteMessage"

\* A moderation command of a chat admin, in reply to the message of a user
\* who is not an admin, with a valid duration when it is a mute
AdminModeratesMember ==
    /\ InGroup
    /\ command \in ModerationCommands
    /\ msg.reply_to_message.present
    /\ SenderAdminAt451
    /\ \A i \in TargetQueries : log[i].res \notin AdminRoles
    /\ command = "/mute" => (Len(args) >= 1 /\ parseMuteDuration(args[1]) > 0)

\* C15 (as claimed): each of ban, mute with a valid duration, unmute and
\* delete, executed by a chat admin on the message of a non-admin, issues
\* its moderation request, and a reply is sent for the command after the
\* request has completed.
C15_Claimed ==
    (pc = "done" /\ AdminModeratesMember)
    => /\ \E i \in ModerationCalls : log[i].op = MutationOf(command)
       /\ \E j \in Replies : \A i \in ModerationCalls : i < j

\* The lookups of a member by Aether ID, and the invite-link requests
MemberLookups ==
    {i \in CallsOf({"select.firstPage"}) : log[i].text = cfg.AIRTABLE_MEMBERS_TABLE_ID}
InviteCalls == CallsOf({"createChatInviteLink"})

\* An invite link is requested, once, for one member and for the community
\* group, exactly when the group is configured
InviteIffGroupConfigured ==
    /\ Cardinality(InviteCalls) = IF cfg.TELEGRAM_GROUP_CHAT_ID # "" THEN 1 ELSE 0
    /\ \A i \in InviteCalls :
          /\ log[i].chat = cfg.TELEGRAM_GROUP_CHAT_ID
          /\ log[i].data = "member_limit=1"
          /\ \A j \in Replies : i < j

\* C16 (as claimed): a verification whose member lookup finds a record
\* always gets the success reply, and an invite link is requested exactly
\* when the community group is configured.
C16_Claimed ==
    (/\ pc = "done"
     /\ \E i \in MemberLookups : log[i].res \in {"found", "found_unnamed"})
    => /\ \E j \in Replies :
             startsWith(log[j].text, "Verification successful! Welcome, ")
       /\ InviteIffGroupConfigured

\* C16 (amended): a verification whose member lookup finds a record with a
\* stored display name gets the success reply, with that name and the
\* capability menu, as its only reply, and an invite link is requested
\* exactly when the community group is configured; a record without a
\* display name gets the verification-failure reply and no invite link.
C16_NamedMemberWelcomed ==
    /\ (pc = "done" /\ \E i \in MemberLookups : log[i].res = "found")
       => /\ Cardinality(Replies) = 1
          /\ Replies = RepliesWith(SuccessMessage(MemberFullName))
          /\ InviteIffGroupConfigured
    /\ (pc = "done" /\ \E i \in MemberLookups : log[i].res = "found_unnamed")
       => /\ Replies = RepliesWith(VerificationFailedText)
          /\ InviteCalls = {}

C16_Witness ==
    /\ pc = "done" /\ response = StatusOk
    /\ msg.text = "/verify AETH-1234"
    /\ \E i \in MemberLookups : log[i].res = "found"
    /\ \E i \in InviteCalls : log[i].res = "ok"
    /\ \E j \in RepliesWith(SuccessMessage(MemberFullName)) : log[j].data = InviteLink

\* handleVerification was called, route.ts 582 and 656-657, and the code it
\* was given
VerificationCalled ==
    /\ msg.present
    /\ IF startsWith(msg.text, "/") THEN command = "/verify"
       ELSE /\ ~(/\ cfg.TELEGRAM_ADMIN_ID # ""
                 /\ toUpperCase(msg.text) = toUpperCase(cfg.TELEGRAM_ADMIN_ID))
            /\ AetherIdTest(msg.text)
verificationCode == IF startsWith(msg.text, "/") THEN At(args, 1) ELSE msg.text

Threw ==
    \/ \E i \in ModerationCalls : log[i].res = "network_error"
    \/ \E i \in CallsOf({"getMe"}) : log[i].res # "ok"
    \/ /\ InGroup /\ command = "/mute" /\ Len(args) = 0
       /\ msg.reply_to_message.present
       /\ SenderAdminAt451
       /\ \A i \in TargetQueries : log[i].res \notin AdminRoles

\* C18: every delivery ends with exactly one response: 500 when the bot
\* token is missing or an exception left the handler, 200 in every other
\* case, the branches that do nothing included (no message in the body, a
\* command that is ignored, free text in a group).  No response is given
\* before the delivery is handled, and none after the first.
C18_OneResponse ==
    /\ [](IF pc = "done"
          THEN response = IF cfg.TELEGRAM_BOT_TOKEN = "" \/ Threw
                          THEN StatusError ELSE StatusOk
          ELSE response = 0)
    /\ [][response # 0 => (pc' = "idle" /\ response' = 0)]_vars

C18_Witness ==
    /\ pc = "done"
    /\ InGroup /\ msg.text = "hello"
    /\ log = <<>>
    /\ response = StatusOk

\* A string of one or more decimal digits, and the number it writes
DigitsOnly(s) == Len(s) >= 1 /\ \A i \in 1..Len(s) : CharAt(s, i) \in Digit

RECURSIVE Pow10(_)
Pow10(n) == IF n = 0 THEN 1 ELSE 10 * Pow10(n - 1)

RECURSIVE DecimalValue(_)
DecimalValue(s) ==
    IF s = "" THEN 0
    ELSE DigitVal(Head(s)) * Pow10(Len(s) - 1) + DecimalValue(Tail(s))

\* C19: parseMuteDuration returns n*3600, n*86400 or n*60 for an input that
\* is exactly one or more digits writing n followed by h, d or m, and 0 for
\* every other string (no unit, other characters, the empty string):
\* "1h" -> 3600, "7d" -> 604800, "30m" -> 1800, "abc" -> 0, "" -> 0,
\* "5x" -> 0.
C19_DurationTable ==
    pc = "done"
    => /\ LET n == Len(input)
              digits == SubSeq(input, 1, n - 1)
              unit == CharAt(input, n)
          IN  output = IF n >= 2 /\ DigitsOnly(digits) /\ unit \in {"h", "d", "m"}
                       THEN DecimalValue(digits)
                            * (CASE unit = "h" -> 3600
                                 [] unit = "d" -> 86400
                                 [] OTHER -> 60)
                       ELSE 0
       /\ input = "1h" => output = 3600
       /\ input = "7d" => output = 604800
       /\ input = "30m" => output = 1800
       /\ input \in {"abc", "", "5x"} => output = 0

C19_Witness ==
    /\ pc = "done"
    /\ input = "30m"
    /\ output = 1800

\* s holds t as a substring
Occurs(t, s) == \E i \in 1..(Len(s) - Len(t) + 1) : SubSeq(s, i, i + Len(t) - 1) = t

\* The pieces of ArgTokens that are a key="value" pair, with their key and
\* value; the other pieces of ArgTokens, but for the last two, hold no pair
\* and are no part of one
PairTokens ==
    {[token |-> "a=\"1\"", key |-> "a", val |-> "1"],
     [token |-> "a=\"2\"", key |-> "a", val |-> "2"],
     [token |-> "b=\"1\"", key |-> "b", val |-> "1"],
     [token |-> "title=\"A\"", key |-> "title", val |-> "A"],
     [token |-> "date=\"2025-01-01\"", key |-> "date", val |-> "2025-01-01"]}
PairOf(t) == CHOOSE p \in PairTokens : p.token = t
IsPair(t) == \E p \in PairTokens : p.token = t
OpenTokens == {"t=\"A", "B\""}

\* The positions of the pairs of `a` with key k
PairsFor(a, k) == {i \in 1..Len(a) : IsPair(a[i]) /\ PairOf(a[i]).key = k}

Max(S) == CHOOSE x \in S : \A y \in S : x >= y

\* C20: parseCommandArgs maps each key to the value of the last key="value"
\* occurrence of a left-to-right scan and ignores what is not of that
\* shape: every key of the result is a non-empty word and its value a
\* non-empty text without a quote, found as key="value" in the input; for
\* arguments made of whole pieces, the keys are those of the pairs and each
\* has the value of its last pair; title="A" date="2025-01-01" gives
\* {title: "A", date: "2025-01-01"}, a="1" a="2" gives {a: "2"}, and the
\* unquoted title=A leaves the key title absent.
C20_LastPairWins ==
    pc = "done"
    => /\ \A k \in DOMAIN output :
             /\ k # ""
             /\ \A i \in 1..Len(k) : IsWordChar(CharAt(k, i))
             /\ output[k] # ""
             /\ ~Occurs(Quote, output[k])
             /\ Occurs(k \o "=" \o Quote \o output[k] \o Quote, join(input))
       /\ (\A i \in 1..Len(input) : input[i] \notin OpenTokens)
          => /\ DOMAIN output = {PairOf(input[i]).key :
                                    i \in {j \in 1..Len(input) : IsPair(input[j])}}
             /\ \A k \in DOMAIN output :
                   output[k] = PairOf(input[Max(PairsFor(input, k))]).val
       /\ input = <<"title=\"A\"", "date=\"2025-01-01\"">>
          => output = [title |-> "A", date |-> "2025-01-01"]
       /\ input = <<"a=\"1\"", "a=\"2\"">> => output = [a |-> "2"]
       /\ input = <<"title=A">> => "title" \notin DOMAIN output
       /\ input = <<"t=\"A", "B\"">> => output = [t |-> "A B"]

C20_Witness ==
    /\ pc = "done"
    /\ input = <<"a=\"1\"", "title=A", "a=\"2\"">>
    /\ output = [a |-> "2"]

\* C21: a moderation command (ban, mute, unmute, delete) of a chat admin in
\* a group, with no replied-to message, gets exactly one reply, the 'must
\* be used as a reply' usage error, and the handling stops there with a
\* 200: no moderation request is issued and no later stage runs (no getMe
\* request, no second membership query, no datastore call).
C21_NoTargetUsageAndStop ==
    (/\ pc = "done"
     /\ InGroup
     /\ command \in ModerationCommands
     /\ ~msg.reply_to_message.present
     /\ SenderAdminAt451)
    => /\ response = StatusOk
       /\ Cardinality(Replies) = 1
       /\ Replies = RepliesWith(MustReplyText)
       /\ \A i \in Replies : log[i].target = msg.message_id
       /\ ModerationCalls = {}
       /\ Cardinality(SenderQueries) = 1
       /\ CallsOf({"getMe"}) = {} /\ DatastoreCalls = {}
       /\ Len(log) = 2

C21_Witness ==
    /\ pc = "done" /\ response = StatusOk
    /\ InGroup
    /\ msg.text = "/mute 1h"
    /\ ~msg.reply_to_message.present
    /\ SenderAdminAt451
    /\ RepliesWith(MustReplyText) # {}
    /\ Len(log) = 2

\* The text is the admin authentication phrase, route.ts 639
IsAdminPhrase ==
    /\ msg.present /\ ~startsWith(msg.text, "/")
    /\ cfg.TELEGRAM_ADMIN_ID # ""
    /\ toUpperCase(msg.text) = toUpperCase(cfg.TELEGRAM_ADMIN_ID)

\* A command no case of either switch names, and text that is neither the
\* admin phrase nor an identity code
UnrecognizedCommand ==
    /\ IsCommand
    /\ command \notin ModerationCommands \cup adminEventCommands
                      \cup PrivateOnlyCommands \cup {"/start", "/verify"}
PlainText ==
    /\ msg.present /\ ~startsWith(msg.text, "/")
    /\ ~IsAdminPhrase
    /\ ~AetherIdTest(msg.text)

\* C22: input that matches no handler gets a fallback reply only in a
\* private chat.  An unrecognized command that is no moderation or
\* admin-event command gets exactly one 'not recognized' reply in a private
\* chat and none in a group; text that is neither the admin phrase nor an
\* identity code gets exactly one help nudge in a private chat and no reply
\* elsewhere; neither fallback is ever sent to a group.
C22_FallbackOnlyInPrivate ==
    pc = "done"
    => /\ UnrecognizedCommand
          => IF InPrivate
             THEN Cardinality(Replies) = 1 /\ Replies = RepliesWith(NotRecognizedText)
             ELSE Replies = {}
       /\ PlainText
          => IF InPrivate
             THEN Cardinality(Replies) = 1 /\ Replies = RepliesWith(HelpNudgeText)
             ELSE Replies = {}
       /\ InGroup
          => RepliesWith(NotRecognizedText) \cup RepliesWith(HelpNudgeText) = {}

C22_Witness ==
    /\ pc = "done" /\ response = StatusOk
    /\ InPrivate
    /\ msg.text = "/foo"
    /\ Cardinality(Replies) = 1
    /\ RepliesWith(NotRecognizedText) # {}

\* C23: the handling of a message whose text starts with "/" sends at most
\* one reply, in any chat and whatever the sender's privilege: the
\* moderation stage, the redirect and admin-event stage and the general
\* switch never each reply to the same message.
C23_AtMostOneReply ==
    IsCommand => Cardinality(Replies) <= 1

C23_Witness ==
    /\ pc = "done" /\ response = StatusOk
    /\ InPrivate
    /\ msg.from = SuperUser
    /\ msg.text = "/updateevent"
    /\ Cardinality(Replies) = 1
    /\ \A i \in Replies : startsWith(log[i].text, "Usage:")

\* C24: a ban, restrict (mute, unmute) or delete request is issued only in
\* a group, for a text that is a moderation command, after a membership
\* query about the sender in this delivery answered creator or
\* administrator, and it is the request of that command; a ban or restrict
\* needs a replied-to message and names its author, a delete names the
\* replied-to message or the command message.  None is issued from a
\* private chat or for text that is not a command.
C24_ModerationOnlyByLiveAdmin ==
    \A i \in ModerationCalls :
        /\ InGroup /\ ~InPrivate
        /\ IsCommand
        /\ command \in ModerationCommands
        /\ log[i].op = MutationOf(command)
        /\ \E j \in NthSenderQuery(1) : j < i /\ log[j].res \in AdminRoles
        /\ log[i].chat = msg.chat.id
        /\ log[i].op \in {"banChatMember", "restrictChatMember"}
           => /\ msg.reply_to_message.present
              /\ log[i].target = msg.reply_to_message.from
        /\ log[i].op = "deleteMessage"
           => log[i].target \in {msg.reply_to_message.message_id, msg.message_id}

C24_Witness ==
    /\ pc = "done" /\ response = StatusOk
    /\ InGroup
    /\ msg.text = "/unmute"
    /\ SenderAdminAt451
    /\ \E i \in ModerationCalls :
          /\ log[i].op = "restrictChatMember"
          /\ log[i].target = RepliedUser
          /\ log[i].res = "ok"

\* The fetches of all submissions, and the texts of the replies in order
SubmissionFetches ==
    {i \in CallsOf({"select.all"}) : log[i].text = cfg.AIRTABLE_QUESTIONS_TABLE_ID}
IsReply(c) == c.op = "sendMessage"
ReplyTexts == LET sent == SelectSeq(log, IsReply) IN [k \in DOMAIN sent |-> sent[k].text]

ReportHeader == "*All Community Submissions:*\n\n"
NoSubmissionsText == "No submissions found."

\* The replies of the report branch for n submissions: the confirmation,
\* then the report, cut to the limit behind a notice when it is longer, or
\* 'No submissions found.' when there is none
ReportReplies(n) ==
    LET report == ReportHeader \o Report([i \in 1..n |-> SubmissionRow(i)])
    IN  <<AuthenticatedText>>
        \o (IF n = 0 THEN <<NoSubmissionsText>>
            ELSE IF Len(report) > ReportLimit
            THEN <<TooLongText, SubSeq(report, 1, ReportLimit)>>
            ELSE <<report>>)

QuestionsConfigured ==
    /\ cfg.AIRTABLE_API_KEY # "" /\ cfg.AIRTABLE_BASE_ID # ""
    /\ cfg.AIRTABLE_QUESTIONS_TABLE_ID # ""

\* Nothing of the report branch happened
NoReportBranch ==
    /\ SubmissionFetches = {}
    /\ \A k \in DOMAIN ReplyTexts :
          /\ ReplyTexts[k] \notin {AuthenticatedText, TooLongText, NoSubmissionsText}
          /\ ~startsWith(ReplyTexts[k], ReportHeader)

====
